---- MODULE Spec2Model ----
(***************************************************************************)
(* Session / credential lifecycle of AI-Dual-Console (src/main/main.js,    *)
(* src/main/database.js): the `user` table, the user-session.json file,    *)
(* the module-level currentUser cache and the ipcMain handlers that act on *)
(* them.  Window creation, preload switching and browser-storage clearing  *)
(* touch none of this state and are left out.                              *)
(*                                                                         *)
(* Scheduling: every ipcMain handler runs on the single main thread.  A    *)
(* synchronous handler is one atomic action.  An async handler is split    *)
(* where it awaits bcrypt (the only await that leaves the main thread);    *)
(* `await getUserByEmail(..)` awaits an already settled promise, whose     *)
(* continuation is a microtask and runs before the next IPC event.         *)
(*                                                                         *)
(* Environment: Spec runs the handlers with a table that answers, a        *)
(* session file that can be unlinked and a clock that stands still within  *)
(* a handler.  SpecCorrupt, SpecRestart, SpecStore, SpecUnlink and          *)
(* SpecClock each add one thing the program can meet: a foreign write to   *)
(* the session file, a restart, a table that raises, an unlink that        *)
(* throws, a clock that steps between two reads.  SpecFallback adds         *)
(* restarts after which the table is the database file or the `:memory:`   *)
(* fallback.                                                               *)
(***************************************************************************)
EXTENDS Bags, FiniteSets, Integers, Sequences, TLC

VARIABLES
    db,           \* rows of table `user`, in insertion order (database.js:48-56)
    currentUser,  \* main.js:9
    sessionFile,  \* the file at userSessionPath (main.js:10)
    now,          \* Date.now()
    inflight,     \* bag of handler invocations suspended at an await on bcrypt
    returned,     \* history: the handler that just ran to its end, its arguments,
                  \*          the value it handed back and the origin it started from
    origin,       \* history: who wrote sessionFile last, and the login it stems from
    registered,   \* history: <<userId, userData>> of every successful register-user
    env           \* what the handlers meet outside the program: a failing table,
                  \* a session file that cannot be unlinked, a clock about to step

vars == <<db, currentUser, sessionFile, now, inflight, returned, origin, registered, env>>

----------------------------------------------------------------------------
(* Program constants *)

SESSION_TIMEOUT == 24 * 60 * 60 * 1000

saltRounds == 10

(* Bounds *)

TicksPerTimeout == 2      \* clock samples per SESSION_TIMEOUT
MaxTicks == 2             \* clock samples after the first
MaxInFlight == 2          \* handler invocations suspended at the same time

\* Date.now() is sampled every TickMs; the Date.now() reads of one handler run
\* return the same sample, except that the second read of saveSession
\* (main.js:106) comes env.clockEdge milliseconds after the first (main.js:105).
\* The first sample is positive, as epoch time is.
TickMs == SESSION_TIMEOUT \div TicksPerTimeout
StartTime == TickMs
EndTime == StartTime + MaxTicks * TickMs

----------------------------------------------------------------------------
(* Values *)

null == [type |-> "null"]

Has(obj, f) == obj # null /\ f \in DOMAIN obj

DefaultPreferences == [darkMode |-> FALSE, lastUsedAI |-> "claude"]

RegisterInputs ==
    { [name |-> "Alice", email |-> "a@x.com", password |-> "pw123"],
      [name |-> "Bob",   email |-> "b@x.com", password |-> "pw456"] }

LoginInputs == [email : {"a@x.com", "b@x.com"}, password : {"pw123", "pw456"}]

PreferencePatches == { [darkMode |-> TRUE, fontSize |-> 14] }

Passwords == {u.password : u \in RegisterInputs} \cup {l.password : l \in LoginInputs}

\* salts bcrypt may draw; the program never looks inside a hash, so one
\* sample stands for all
Salts == {"N9qo8uLOickgx2ZMRZoMye"}

----------------------------------------------------------------------------
(* Password hasher: bcrypt.hash / bcrypt.compare *)

bcryptHash(password, rounds, salt) ==
    [alg |-> "bcrypt", rounds |-> rounds, salt |-> salt, digest |-> <<password, rounds, salt>>]

bcryptCompare(password, hash) ==
    /\ Has(hash, "digest")
    /\ hash.digest = <<password, hash.rounds, hash.salt>>

hashPassword(password, salt) == bcryptHash(password, saltRounds, salt)

\* comparePassword that accepts every password
comparePassword_acceptsAll(password, hash) == TRUE

comparePassword(password, hash) == bcryptCompare(password, hash)

----------------------------------------------------------------------------
(* Credential store: table `user` *)

getUserByEmail(rows, email) ==
    IF \E i \in 1..Len(rows) : rows[i].email = email
    THEN rows[CHOOSE i \in 1..Len(rows) : rows[i].email = email]
    ELSE null

\* what better-sqlite3 raises when the table cannot be read or written
StoreError == "disk I/O error"

UniqueEmail(rows) ==
    \A i, j \in 1..Len(rows) : rows[i].email = rows[j].email => i = j

\* saveUserToDB that returns the rowid the table ended with before the INSERT
saveUserToDB_staleRowid(rows, userData) ==
    IF \E i \in 1..Len(rows) : rows[i].email = userData.email
    THEN [threw |-> TRUE, message |-> "UNIQUE constraint failed: user.email", rows |-> rows]
    ELSE [threw |-> FALSE, lastInsertRowid |-> Len(rows),
          rows |-> Append(rows, [id |-> Len(rows) + 1, name |-> userData.name,
                                 email |-> userData.email, password |-> userData.password])]

\* INSERT INTO user: throws on the UNIQUE(email) constraint, else appends the
\* row under the next AUTOINCREMENT id and returns lastInsertRowid.  The
\* created_at column is written and never read; it is left out of the rows.
saveUserToDB(rows, userData) ==
    IF \E i \in 1..Len(rows) : rows[i].email = userData.email
    THEN [threw |-> TRUE, message |-> "UNIQUE constraint failed: user.email", rows |-> rows]
    ELSE [threw |-> FALSE, lastInsertRowid |-> Len(rows) + 1,
          rows |-> Append(rows, [id |-> Len(rows) + 1, name |-> userData.name,
                                 email |-> userData.email, password |-> userData.password])]

----------------------------------------------------------------------------
(* Session file: fs + JSON *)

NoFile == [exists |-> FALSE]

FileWith(text) == [exists |-> TRUE, content |-> text]

JSONstringify(value) == [json |-> value]

JSONparse(text) ==
    IF "json" \in DOMAIN text
    THEN [threw |-> FALSE, value |-> text.json]
    ELSE [threw |-> TRUE]

Garbage == [bytes |-> "not json"]

\* `x.preferences || {}`
PreferencesOf(userData) ==
    IF Has(userData, "preferences") THEN userData.preferences ELSE <<>>

\* a spread in which the keys of the left object win
Spread_leftWins(a, b) ==
    [k \in DOMAIN a \cup DOMAIN b |-> IF k \in DOMAIN a THEN a[k] ELSE b[k]]

\* `{ ...a, ...b }`
Spread(a, b) ==
    [k \in DOMAIN a \cup DOMAIN b |-> IF k \in DOMAIN b THEN b[k] ELSE a[k]]

\* The pair (currentUser, sessionFile) the session helpers read and write.
Sess(cu, file) == [currentUser |-> cu, sessionFile |-> file]

\* clearSession that unlinks the file and forgets to reset the cache
clearSession_keepsCache(S) == Sess(S.currentUser, NoFile)

\* clearSession that resets the cache and forgets to unlink the file
clearSession_keepsFile(S) == Sess(null, S.sessionFile)

\* `currentUser = null` follows fs.unlinkSync inside the try block: when the
\* unlink throws, the catch block logs and the cache keeps its value
clearSession(S) ==
    IF S.sessionFile.exists /\ env.unlinkFails
    THEN S
    ELSE Sess(null, NoFile)

saveSession(S, userData, t) ==
    Sess(S.currentUser,
         FileWith(JSONstringify(
             [user |-> [id |-> userData.id, name |-> userData.name,
                        email |-> userData.email,
                        preferences |-> PreferencesOf(userData)],
              timestamp |-> t,
              expiresAt |-> (t + env.clockEdge) + SESSION_TIMEOUT])))

\* loadSavedSession that rewrites a live record with the time of the call
loadSavedSession_bumpsTimestamp(S, t) ==
    IF ~S.sessionFile.exists
    THEN [ret |-> FALSE, S |-> S]
    ELSE LET parsed == JSONparse(S.sessionFile.content) IN
         IF parsed.threw
         THEN [ret |-> FALSE, S |-> clearSession(S)]
         ELSE LET sessionData == parsed.value IN
              IF /\ sessionData # null
                 /\ Has(sessionData, "user")
                 /\ Has(sessionData, "timestamp")
                 /\ sessionData.timestamp # 0
              THEN IF t - sessionData.timestamp < SESSION_TIMEOUT
                   THEN [ret |-> TRUE,
                         S |-> saveSession(Sess(sessionData.user, S.sessionFile),
                                           sessionData.user, t)]
                   ELSE [ret |-> FALSE, S |-> clearSession(S)]
              ELSE [ret |-> FALSE, S |-> S]

\* loadSavedSession that reports a live record and forgets to load its user
loadSavedSession_cacheUntouched(S, t) ==
    IF ~S.sessionFile.exists
    THEN [ret |-> FALSE, S |-> S]
    ELSE LET parsed == JSONparse(S.sessionFile.content) IN
         IF parsed.threw
         THEN [ret |-> FALSE, S |-> clearSession(S)]
         ELSE LET sessionData == parsed.value IN
              IF /\ sessionData # null
                 /\ Has(sessionData, "user")
                 /\ Has(sessionData, "timestamp")
                 /\ sessionData.timestamp # 0
              THEN IF t - sessionData.timestamp < SESSION_TIMEOUT
                   THEN [ret |-> TRUE, S |-> S]
                   ELSE [ret |-> FALSE, S |-> clearSession(S)]
              ELSE [ret |-> FALSE, S |-> S]

\* loadSavedSession with the expiry test off by one (`<=` for `<`)
loadSavedSession_ageInclusive(S, t) ==
    IF ~S.sessionFile.exists
    THEN [ret |-> FALSE, S |-> S]
    ELSE LET parsed == JSONparse(S.sessionFile.content) IN
         IF parsed.threw
         THEN [ret |-> FALSE, S |-> clearSession(S)]
         ELSE LET sessionData == parsed.value IN
              IF /\ sessionData # null
                 /\ Has(sessionData, "user")
                 /\ Has(sessionData, "timestamp")
                 /\ sessionData.timestamp # 0
              THEN IF t - sessionData.timestamp <= SESSION_TIMEOUT
                   THEN [ret |-> TRUE, S |-> Sess(sessionData.user, S.sessionFile)]
                   ELSE [ret |-> FALSE, S |-> clearSession(S)]
              ELSE [ret |-> FALSE, S |-> S]

loadSavedSession(S, t) ==
    IF ~S.sessionFile.exists
    THEN [ret |-> FALSE, S |-> S]
    ELSE LET parsed == JSONparse(S.sessionFile.content) IN
         IF parsed.threw
         THEN [ret |-> FALSE, S |-> clearSession(S)]
         ELSE LET sessionData == parsed.value IN
              IF /\ sessionData # null
                 /\ Has(sessionData, "user")
                 /\ Has(sessionData, "timestamp")
                 /\ sessionData.timestamp # 0
              THEN IF t - sessionData.timestamp < SESSION_TIMEOUT
                   THEN [ret |-> TRUE, S |-> Sess(sessionData.user, S.sessionFile)]
                   ELSE [ret |-> FALSE, S |-> clearSession(S)]
              ELSE [ret |-> FALSE, S |-> S]

\* refreshSession that never rewrites the record
refreshSession_noWrite(S, t) == S

refreshSession(S, t) ==
    IF S.currentUser # null THEN saveSession(S, S.currentUser, t) ELSE S

----------------------------------------------------------------------------
(* History bookkeeping *)

NoOrigin == [by |-> "none", loginAt |-> 0]

NoReturn == [op |-> "none"]

\* an ipcMain.handle handler resolves with `value`
Return(op, args, value) == [op |-> op, args |-> args, value |-> value, saw |-> origin]

\* an ipcMain.on handler ends; nothing goes back to the sender
Done(op, args) == [op |-> op, args |-> args, saw |-> origin]

\* origin after a step that leaves `file`, whose writer (if it wrote) is `by`
OriginAfter(file, by, wrote) ==
    IF ~file.exists THEN NoOrigin
    ELSE IF ~wrote THEN origin
    ELSE IF by = "login-user" THEN [by |-> by, loginAt |-> now]
    ELSE [by |-> by, loginAt |-> origin.loginAt]

S0 == Sess(currentUser, sessionFile)

SetSession(S) ==
    /\ currentUser' = S.currentUser
    /\ sessionFile' = S.sessionFile

----------------------------------------------------------------------------
(* Environment *)

\* inMemory: the table in use is the `:memory:` one of database.js:59-75;
\* onDisk: the rows of the database file while the `:memory:` table is in use
NoFaults == [storeFails |-> FALSE, unlinkFails |-> FALSE, clockEdge |-> 0,
             inMemory |-> FALSE, onDisk |-> <<>>]

----------------------------------------------------------------------------
Init ==
    /\ db = <<>>
    /\ currentUser = null
    /\ sessionFile = NoFile
    /\ now = StartTime
    /\ inflight = EmptyBag
    /\ returned = NoReturn
    /\ origin = NoOrigin
    /\ registered = <<>>
    /\ env = NoFaults

Tick ==
    /\ now < EndTime
    /\ now' = now + TickMs
    /\ returned' = NoReturn
    /\ UNCHANGED <<db, currentUser, sessionFile, inflight, origin, registered, env>>


----------------------------------------------------------------------------
\* register-user without the existence check of main.js:161-164
RegisterUser_noLookup(userData) ==
    /\ BagCardinality(inflight) < MaxInFlight
    /\ inflight' = inflight (+) SetToBag({[op |-> "register-user", userData |-> userData]})
    /\ returned' = NoReturn
    /\ UNCHANGED <<db, currentUser, sessionFile, now, origin, registered, env>>

(* ipcMain.handle('register-user'), up to `await hashPassword(..)` *)
RegisterUser(userData) ==
    LET existingUser == getUserByEmail(db, userData.email) IN
    /\ IF env.storeFails
       THEN /\ returned' = Return("register-user", userData,
                                  [success |-> FALSE, message |-> StoreError])
            /\ inflight' = inflight
       ELSE IF existingUser # null
       THEN /\ returned' = Return("register-user", userData,
                                  [success |-> FALSE, message |-> "Email already registered"])
            /\ inflight' = inflight
       ELSE /\ BagCardinality(inflight) < MaxInFlight
            /\ inflight' = inflight (+) SetToBag({[op |-> "register-user", userData |-> userData]})
            /\ returned' = NoReturn
    /\ UNCHANGED <<db, currentUser, sessionFile, now, origin, registered, env>>

(* ipcMain.handle('register-user'), from the resolution of hashPassword on *)
RegisterUserResume(call, salt) ==
    LET hashedPassword == hashPassword(call.userData.password, salt)
        saved == IF env.storeFails
                 THEN [threw |-> TRUE, message |-> StoreError, rows |-> db]
                 ELSE saveUserToDB(db, [name |-> call.userData.name,
                                        email |-> call.userData.email,
                                        password |-> hashedPassword])
    IN
    /\ BagIn(call, inflight)
    /\ call.op = "register-user"
    /\ inflight' = inflight (-) SetToBag({call})
    /\ db' = saved.rows
    /\ IF saved.threw
       THEN /\ returned' = Return("register-user", call.userData,
                                  [success |-> FALSE, message |-> saved.message])
            /\ registered' = registered
       ELSE /\ returned' = Return("register-user", call.userData,
                                  [success |-> TRUE, userId |-> saved.lastInsertRowid])
            /\ registered' = Append(registered, [userId |-> saved.lastInsertRowid,
                                                 userData |-> call.userData])
    /\ UNCHANGED <<currentUser, sessionFile, now, origin, env>>

\* login-user without the try/catch of main.js:184, 215-218: a lookup that
\* raises rejects the invocation instead of resolving it with a result
LoginUser_lookupUncaught(loginData) ==
    LET user == getUserByEmail(db, loginData.email) IN
    /\ IF env.storeFails
       THEN /\ returned' = [op |-> "login-user", args |-> loginData,
                            rejected |-> StoreError, saw |-> origin]
            /\ inflight' = inflight
       ELSE IF user = null
       THEN /\ returned' = Return("login-user", loginData,
                                  [success |-> FALSE, message |-> "User not found"])
            /\ inflight' = inflight
       ELSE /\ BagCardinality(inflight) < MaxInFlight
            /\ inflight' = inflight (+) SetToBag({[op |-> "login-user",
                                                   loginData |-> loginData, user |-> user]})
            /\ returned' = NoReturn
    /\ UNCHANGED <<db, currentUser, sessionFile, now, origin, registered, env>>

(* ipcMain.handle('login-user'), up to `await comparePassword(..)` *)
LoginUser(loginData) ==
    LET user == getUserByEmail(db, loginData.email) IN
    /\ IF env.storeFails
       THEN /\ returned' = Return("login-user", loginData,
                                  [success |-> FALSE, message |-> StoreError])
            /\ inflight' = inflight
       ELSE IF user = null
       THEN /\ returned' = Return("login-user", loginData,
                                  [success |-> FALSE, message |-> "User not found"])
            /\ inflight' = inflight
       ELSE /\ BagCardinality(inflight) < MaxInFlight
            /\ inflight' = inflight (+) SetToBag({[op |-> "login-user",
                                                   loginData |-> loginData, user |-> user]})
            /\ returned' = NoReturn
    /\ UNCHANGED <<db, currentUser, sessionFile, now, origin, registered, env>>

\* the session user built by copying the whole row, password column included
SessionUser_wholeRow(user) ==
    [id |-> user.id, name |-> user.name, email |-> user.email,
     password |-> user.password, preferences |-> DefaultPreferences]

\* main.js:198-206
SessionUser(user) ==
    [id |-> user.id, name |-> user.name, email |-> user.email,
     preferences |-> DefaultPreferences]

(* ipcMain.handle('login-user'), from the resolution of comparePassword on *)
LoginUserResume(call) ==
    LET passwordMatch == comparePassword(call.loginData.password, call.user.password) IN
    /\ BagIn(call, inflight)
    /\ call.op = "login-user"
    /\ inflight' = inflight (-) SetToBag({call})
    /\ IF ~passwordMatch
       THEN /\ returned' = Return("login-user", call.loginData,
                                  [success |-> FALSE, message |-> "Invalid password"])
            /\ UNCHANGED <<currentUser, sessionFile, origin>>
       ELSE LET S == saveSession(Sess(SessionUser(call.user), sessionFile),
                                 SessionUser(call.user), now) IN
            /\ SetSession(S)
            /\ returned' = Return("login-user", call.loginData,
                                  [success |-> TRUE, user |-> S.currentUser])
            /\ origin' = OriginAfter(S.sessionFile, "login-user", TRUE)
    /\ UNCHANGED <<db, now, registered, env>>

\* get-current-user that loads the session file whether the cache is set or not
GetCurrentUser_alwaysLoads ==
    /\ LET L == loadSavedSession(S0, now) IN
       IF L.ret
       THEN LET R == refreshSession(L.S, now) IN
            /\ SetSession(R)
            /\ returned' = Return("get-current-user", <<>>, R.currentUser)
            /\ origin' = OriginAfter(R.sessionFile, "get-current-user",
                                     L.S.currentUser # null)
       ELSE /\ SetSession(L.S)
            /\ returned' = Return("get-current-user", <<>>, null)
            /\ origin' = OriginAfter(L.S.sessionFile, "get-current-user", FALSE)
    /\ UNCHANGED <<db, now, inflight, registered, env>>

\* get-current-user that hands back the cache without looking at the file
GetCurrentUser_trustsCache ==
    /\ returned' = Return("get-current-user", <<>>, currentUser)
    /\ UNCHANGED <<currentUser, sessionFile, origin>>
    /\ UNCHANGED <<db, now, inflight, registered, env>>

(* ipcMain.handle('get-current-user') *)
GetCurrentUser ==
    /\ IF currentUser # null
       THEN LET L == loadSavedSession(S0, now) IN
            IF L.ret
            THEN LET R == refreshSession(L.S, now) IN
                 /\ SetSession(R)
                 /\ returned' = Return("get-current-user", <<>>, R.currentUser)
                 /\ origin' = OriginAfter(R.sessionFile, "get-current-user",
                                          L.S.currentUser # null)
            ELSE /\ SetSession(L.S)
                 /\ returned' = Return("get-current-user", <<>>, null)
                 /\ origin' = OriginAfter(L.S.sessionFile, "get-current-user", FALSE)
       ELSE /\ returned' = Return("get-current-user", <<>>, null)
            /\ UNCHANGED <<currentUser, sessionFile, origin>>
    /\ UNCHANGED <<db, now, inflight, registered, env>>

(* ipcMain.on('logout') *)
Logout ==
    /\ LET S == clearSession(S0) IN
       /\ SetSession(S)
       /\ origin' = OriginAfter(S.sessionFile, "logout", FALSE)
    /\ returned' = Done("logout", <<>>)
    /\ UNCHANGED <<db, now, inflight, registered, env>>

(* ipcMain.on('save-user-preferences') *)
SaveUserPreferences(preferences) ==
    /\ IF currentUser = null
       THEN UNCHANGED <<currentUser, sessionFile, origin>>
       ELSE LET updated == Spread(currentUser,
                                  [preferences |-> Spread(PreferencesOf(currentUser),
                                                          preferences)])
                S == saveSession(Sess(updated, sessionFile), updated, now)
            IN
            /\ SetSession(S)
            /\ origin' = OriginAfter(S.sessionFile, "save-user-preferences", TRUE)
    /\ returned' = Done("save-user-preferences", preferences)
    /\ UNCHANGED <<db, now, inflight, registered, env>>

(* ipcMain.on('session-activity') *)
SessionActivity ==
    /\ LET S == refreshSession(S0, now) IN
       /\ SetSession(S)
       /\ origin' = OriginAfter(S.sessionFile, "session-activity", currentUser # null)
    /\ returned' = Done("session-activity", <<>>)
    /\ UNCHANGED <<db, now, inflight, registered, env>>

(* ipcMain.handle('validate-session') *)
ValidateSession ==
    /\ LET L == loadSavedSession(S0, now) IN
       /\ SetSession(L.S)
       /\ returned' = Return("validate-session", <<>>, L.ret)
       /\ origin' = OriginAfter(L.S.sessionFile, "validate-session", FALSE)
    /\ UNCHANGED <<db, now, inflight, registered, env>>

(* Something other than the program overwrites user-session.json with      *)
(* content that is not a session record.                                   *)
CorruptContents ==
    {Garbage, JSONstringify(null), JSONstringify(<<>>)}
    \cup (IF sessionFile.exists /\ ~JSONparse(sessionFile.content).threw
             /\ Has(JSONparse(sessionFile.content).value, "user")
          THEN LET v == JSONparse(sessionFile.content).value IN
               { JSONstringify([k \in DOMAIN v \ {"user"} |-> v[k]]),
                 JSONstringify([k \in DOMAIN v \ {"timestamp"} |-> v[k]]) }
          ELSE {})

CorruptSession ==
    /\ \E text \in CorruptContents :
          /\ sessionFile' = FileWith(text)
          /\ origin' = [by |-> "external", loginAt |-> origin.loginAt]
    /\ returned' = NoReturn
    /\ UNCHANGED <<db, currentUser, now, inflight, registered, env>>

----------------------------------------------------------------------------
Next ==
    \/ \E userData \in RegisterInputs : RegisterUser(userData)
    \/ \E call \in BagToSet(inflight), salt \in Salts : RegisterUserResume(call, salt)
    \/ \E loginData \in LoginInputs : LoginUser(loginData)
    \/ \E call \in BagToSet(inflight) : LoginUserResume(call)
    \/ GetCurrentUser
    \/ Logout
    \/ \E preferences \in PreferencePatches : SaveUserPreferences(preferences)
    \/ SessionActivity
    \/ ValidateSession
    \/ Tick

Spec == Init /\ [][Next]_vars

NextCorrupt == Next \/ CorruptSession

SpecCorrupt == Init /\ [][NextCorrupt]_vars

(* The process quits and is started again: the module state starts over     *)
(* (currentUser = null, no handler suspended), the table and the session    *)
(* file are what the last run left, and createWindow restores the session.  *)
Restart ==
    /\ LET L == loadSavedSession(Sess(null, sessionFile), now) IN
       /\ SetSession(L.S)
       /\ returned' = Return("startup", <<>>, L.ret)
       /\ origin' = OriginAfter(L.S.sessionFile, "startup", FALSE)
    /\ inflight' = EmptyBag
    /\ UNCHANGED <<db, now, registered, env>>

NextRestart == Next \/ Restart

SpecRestart == Init /\ [][NextRestart]_vars

(* The process quits and is started again, and database.js opens the table  *)
(* anew: the database file, with the rows it holds, or, when opening it     *)
(* throws, an empty `:memory:` table.  Rows of a `:memory:` table end with  *)
(* the process.  The rest of the startup is that of Restart.                *)
RestartStore(fallback) ==
    LET disk == IF env.inMemory THEN env.onDisk ELSE db
        \* the history keeps the registrations whose row the table opened holds
        StillStored(r) ==
            ~fallback /\ \E i \in 1..Len(disk) :
                            disk[i].id = r.userId /\ disk[i].email = r.userData.email
    IN
    /\ db' = IF fallback THEN <<>> ELSE disk
    /\ env' = [env EXCEPT !.inMemory = fallback,
                          !.onDisk = IF fallback THEN disk ELSE <<>>]
    /\ LET L == loadSavedSession(Sess(null, sessionFile), now) IN
       /\ SetSession(L.S)
       /\ returned' = Return("startup", <<>>, L.ret)
       /\ origin' = OriginAfter(L.S.sessionFile, "startup", FALSE)
    /\ inflight' = EmptyBag
    /\ registered' = SelectSeq(registered, StillStored)
    /\ now' = now

\* The handlers that read or write the table, the cache or the identity in
\* the session file; save-user-preferences changes only the preferences of
\* the session user, which no handler compares with the table.
NextFallback ==
    \/ \E userData \in RegisterInputs : RegisterUser(userData)
    \/ \E call \in BagToSet(inflight), salt \in Salts : RegisterUserResume(call, salt)
    \/ \E loginData \in LoginInputs : LoginUser(loginData)
    \/ \E call \in BagToSet(inflight) : LoginUserResume(call)
    \/ GetCurrentUser
    \/ Logout
    \/ SessionActivity
    \/ ValidateSession
    \/ Tick
    \/ \E fallback \in BOOLEAN : RestartStore(fallback)

SpecFallback == Init /\ [][NextFallback]_vars

(* The table starts or stops raising on every read and insert.              *)
StoreFault ==
    /\ env' = [env EXCEPT !.storeFails = ~@]
    /\ returned' = NoReturn
    /\ UNCHANGED <<db, currentUser, sessionFile, now, inflight, origin, registered>>

NextStore == Next \/ StoreFault

SpecStore == Init /\ [][NextStore]_vars

\* every invocation a run can have suspended at bcrypt
Calls ==
    {[op |-> "register-user", userData |-> u] : u \in RegisterInputs}
    \cup {call \in {[op |-> "login-user", loginData |-> l,
                      user |-> [id |-> i, name |-> u.name, email |-> u.email,
                                password |-> hashPassword(u.password, salt)]] :
                        l \in LoginInputs, i \in 1..Cardinality(RegisterInputs),
                        u \in RegisterInputs, salt \in Salts} :
             call.user.email = call.loginData.email}

\* the continuation of `call` runs: bcrypt's worker thread has settled the
\* promise the handler awaits
Resume(call) ==
    \/ \E salt \in Salts : RegisterUserResume(call, salt)
    \/ LoginUserResume(call)

\* The handlers that read or write the table or the bag of suspended
\* invocations, and logout, which empties what a login fills; the other
\* handlers touch neither inflight nor db nor env, so they can neither
\* enable nor disable a continuation.
NextRequests ==
    \/ \E userData \in RegisterInputs : RegisterUser(userData)
    \/ \E call \in BagToSet(inflight), salt \in Salts : RegisterUserResume(call, salt)
    \/ \E loginData \in LoginInputs : LoginUser(loginData)
    \/ \E call \in BagToSet(inflight) : LoginUserResume(call)
    \/ Logout
    \/ Tick
    \/ StoreFault

\* bcrypt settles every promise it hands out
SpecRequestsFair ==
    Init /\ [][NextRequests]_vars /\ \A call \in Calls : WF_vars(Resume(call))

(* fs.unlinkSync of the session file starts or stops throwing.              *)
UnlinkFault ==
    /\ env' = [env EXCEPT !.unlinkFails = ~@]
    /\ returned' = NoReturn
    /\ UNCHANGED <<db, currentUser, sessionFile, now, inflight, origin, registered>>

NextUnlink == Next \/ UnlinkFault

SpecUnlink == Init /\ [][NextUnlink]_vars

(* The clock comes to, or leaves, a millisecond edge: the next saveSession  *)
(* reads Date.now() once before the edge and once after it.                 *)
ClockEdge ==
    /\ env' = [env EXCEPT !.clockEdge = 1 - @]
    /\ returned' = NoReturn
    /\ UNCHANGED <<db, currentUser, sessionFile, now, inflight, origin, registered>>

NextClock == Next \/ ClockEdge

SpecClock == Init /\ [][NextClock]_vars

----------------------------------------------------------------------------
(* Vocabulary of the properties *)

\* the step hands back the result of handler `op`
Ran(op) == returned'.op = op

\* the parsed content of the session file, null when there is none to parse
SessionRecord ==
    IF sessionFile.exists /\ ~JSONparse(sessionFile.content).threw
    THEN JSONparse(sessionFile.content).value
    ELSE null

IsSessionRecord(v) ==
    /\ Has(v, "user")
    /\ Has(v, "timestamp")
    /\ Has(v, "expiresAt")

\* the session view of a stored row: its id, name and email, default preferences
IsFreshLoginOf(u, rows) ==
    \E i \in 1..Len(rows) :
        u = [id |-> rows[i].id, name |-> rows[i].name, email |-> rows[i].email,
             preferences |-> [darkMode |-> FALSE, lastUsedAI |-> "claude"]]

----------------------------------------------------------------------------

\* get-current-user would return a user: the cache is set and the session
\* file holds a record younger than SESSION_TIMEOUT
Active ==
    /\ currentUser # null
    /\ IsSessionRecord(SessionRecord)
    /\ now - SessionRecord.timestamp < SESSION_TIMEOUT

----------------------------------------------------------------------------

\* the session file holds a record that has reached SESSION_TIMEOUT
Expired ==
    /\ IsSessionRecord(SessionRecord)
    /\ now - SessionRecord.timestamp >= SESSION_TIMEOUT

\* C1: a session established by a login at time T and not rewritten since is
\* returned by get-current-user at every time T' with T' - T < SESSION_TIMEOUT;
\* at every T' with T' - T >= SESSION_TIMEOUT get-current-user returns null,
\* removes the session file and empties the cache.
C1_LoginSessionLivesOneTimeout ==
    [][ (Ran("get-current-user") /\ origin.by = "login-user" /\ GetCurrentUser) =>
            LET T == origin.loginAt IN
            IF now - T < SESSION_TIMEOUT
            THEN /\ returned'.value = currentUser
                 /\ IsFreshLoginOf(currentUser, db)
            ELSE /\ returned'.value = null
                 /\ sessionFile' = NoFile
                 /\ currentUser' = null
      ]_vars

\* get-current-user just found the login's record exactly SESSION_TIMEOUT or
\* more old and cleared it
C1_Witness ==
    /\ returned.op = "get-current-user"
    /\ returned.value = null
    /\ returned.saw.by = "login-user"
    /\ now - returned.saw.loginAt >= SESSION_TIMEOUT
    /\ sessionFile = NoFile
    /\ currentUser = null

\* C2: a session-activity signal at T2 on a live session rewrites the record
\* with the same user and timestamp T2, and from then on get-current-user and
\* validate-session report the session valid at every T3 with
\* T3 - T2 < SESSION_TIMEOUT, however long ago the login was.
C2_RefreshMovesTheAnchor ==
    [][ /\ (Ran("session-activity") /\ SessionActivity
               /\ IsSessionRecord(SessionRecord)
               /\ now - SessionRecord.timestamp < SESSION_TIMEOUT) =>
              /\ IsSessionRecord(SessionRecord')
              /\ SessionRecord'.user = SessionRecord.user
              /\ SessionRecord'.timestamp = now
              /\ currentUser' = currentUser
        /\ (origin.by = "session-activity"
               /\ now - SessionRecord.timestamp < SESSION_TIMEOUT) =>
              /\ (Ran("get-current-user") /\ GetCurrentUser) =>
                    returned'.value = SessionRecord.user
              /\ (Ran("validate-session") /\ ValidateSession) =>
                    returned'.value = TRUE
      ]_vars

\* validate-session answers true for a record that session-activity rewrote,
\* at a time when the login that established it is a full timeout or more old
C2_Witness ==
    /\ returned.op = "validate-session"
    /\ returned.value = TRUE
    /\ returned.saw.by = "session-activity"
    /\ now - returned.saw.loginAt >= SESSION_TIMEOUT
    /\ currentUser # null

\* C4: in every state, either the cache is empty and there is no session
\* file, or the cache holds a user and the session file holds exactly that
\* user (id, name, email, preferences).
C4_CacheAgreesWithFile ==
    \/ /\ currentUser = null
       /\ sessionFile = NoFile
    \/ /\ currentUser # null
       /\ IsSessionRecord(SessionRecord)
       /\ SessionRecord.user = currentUser
       /\ DOMAIN currentUser = {"id", "name", "email", "preferences"}

\* a logout has just run while a login with the right password is still
\* waiting for bcrypt: the race of the claim, half way
C4_Witness ==
    /\ returned.op = "logout"
    /\ returned.saw.by # "none"
    /\ \E call \in BagToSet(inflight) :
          /\ call.op = "login-user"
          /\ \E i \in 1..Len(registered) :
                registered[i].userData.email = call.loginData.email
                /\ registered[i].userData.password = call.loginData.password

\* the file is there and is not a session record
IsCorrupt(file) ==
    /\ file.exists
    /\ \/ JSONparse(file.content).threw
       \/ ~Has(JSONparse(file.content).value, "user")
       \/ ~Has(JSONparse(file.content).value, "timestamp")

\* C3: when the session file is corrupt (unparseable, or parseable without
\* the user or the timestamp field), validate-session and get-current-user
\* answer as they do without a session file, and afterwards the file is gone
\* and the cache is empty.
C3_CorruptRecordIsCleared ==
    [][ IsCorrupt(sessionFile) =>
            /\ (Ran("validate-session") /\ ValidateSession) =>
                  /\ returned'.value = FALSE
                  /\ sessionFile' = NoFile
                  /\ currentUser' = null
            /\ (Ran("get-current-user") /\ GetCurrentUser) =>
                  /\ returned'.value = null
                  /\ sessionFile' = NoFile
                  /\ currentUser' = null
      ]_vars

----------------------------------------------------------------------------
Stored(email) == \E i \in 1..Len(db) : db[i].email = email

\* some successful register-user used exactly this email and password
RegisteredWith(loginData) ==
    \E i \in 1..Len(registered) :
        /\ registered[i].userData.email = loginData.email
        /\ registered[i].userData.password = loginData.password

DuplicateEmail == [success |-> FALSE, message |-> "Email already registered"]

\* C5: register-user with an email that is in the table when the request
\* starts answers 'Email already registered' and leaves the table as it was.
C5_DuplicateEmailRejected ==
    [][ \A u \in RegisterInputs :
            (returned'.op \in {"register-user", "none"} /\ Stored(u.email)
                /\ RegisterUser(u)) =>
                  /\ returned'.op = "register-user"
                  /\ returned'.value = DuplicateEmail
                  /\ db' = db
      ]_vars

\* a register-user for a stored email has just been refused, the row of the
\* first registration is still the only one with that email
C5_Witness ==
    /\ returned.op = "register-user"
    /\ returned.value = DuplicateEmail
    /\ \E i \in 1..Len(registered) :
          /\ registered[i].userData.email = returned.args.email
          /\ db[registered[i].userId].email = returned.args.email
          /\ db[registered[i].userId].name = registered[i].userData.name
    /\ UniqueEmail(db)

\* C6: of two overlapping register-user requests for one email, the table
\* never gets two rows, the first to insert succeeds, and the second is told
\* 'Email already registered', as a sequential duplicate is.
C6_RaceLoserToldDuplicate ==
    [][ \A call \in BagToSet(inflight) :
            (Ran("register-user") /\ call.op = "register-user"
                /\ \E salt \in Salts : RegisterUserResume(call, salt)) =>
                  /\ UniqueEmail(db')
                  /\ IF Stored(call.userData.email)
                     THEN returned'.value = DuplicateEmail
                     ELSE returned'.value = [success |-> TRUE, userId |-> Len(db')]
      ]_vars

\* C7: a login-user that fails (unknown email: 'User not found'; stored email
\* and a password other than the registered one: 'Invalid password') leaves
\* the cache and the session file exactly as they were.
C7_FailedLoginChangesNothing ==
    [][ /\ \A l \in LoginInputs :
              (returned'.op \in {"login-user", "none"} /\ ~Stored(l.email)
                  /\ LoginUser(l)) =>
                    /\ returned'.op = "login-user"
                    /\ returned'.value = [success |-> FALSE, message |-> "User not found"]
                    /\ UNCHANGED <<currentUser, sessionFile>>
        /\ \A call \in BagToSet(inflight) :
              (Ran("login-user") /\ call.op = "login-user"
                  /\ ~RegisteredWith(call.loginData) /\ LoginUserResume(call)) =>
                    /\ returned'.value = [success |-> FALSE, message |-> "Invalid password"]
                    /\ UNCHANGED <<currentUser, sessionFile>>
      ]_vars

\* a login with the wrong password has just failed while another user's
\* session is active
C7_Witness ==
    /\ returned.op = "login-user"
    /\ returned.value = [success |-> FALSE, message |-> "Invalid password"]
    /\ currentUser # null
    /\ currentUser.email # returned.args.email
    /\ IsSessionRecord(SessionRecord)
    /\ SessionRecord.user = currentUser

\* C8: login-user with the email and password of a successful register-user
\* succeeds: it returns the user with that email and the id register-user
\* returned, and leaves the cache and the session file holding that user
\* with the default preferences.
C8_RegisterThenLogin ==
    [][ /\ \A l \in LoginInputs :
              (returned'.op \in {"login-user", "none"} /\ RegisteredWith(l)
                  /\ LoginUser(l)) =>
                    returned'.op = "none"
        /\ \A call \in BagToSet(inflight) :
              (Ran("login-user") /\ call.op = "login-user" /\ LoginUserResume(call)) =>
                  \A i \in 1..Len(registered) :
                      (/\ registered[i].userData.email = call.loginData.email
                       /\ registered[i].userData.password = call.loginData.password) =>
                          LET u == [id |-> registered[i].userId,
                                    name |-> registered[i].userData.name,
                                    email |-> registered[i].userData.email,
                                    preferences |-> [darkMode |-> FALSE,
                                                     lastUsedAI |-> "claude"]]
                          IN
                          /\ returned'.value = [success |-> TRUE, user |-> u]
                          /\ currentUser' = u
                          /\ IsSessionRecord(SessionRecord')
                          /\ SessionRecord'.user = u
      ]_vars

\* the second user to register has just logged in
C8_Witness ==
    /\ returned.op = "login-user"
    /\ returned.value.success
    /\ returned.value.user.id = 2
    /\ returned.value.user.email = returned.args.email
    /\ RegisteredWith(returned.args)
    /\ currentUser = returned.value.user

\* C9: no password and no password hash in a handler's result, in the cache
\* or in the session file.
ExposesSecret(u) ==
    /\ u # null
    /\ \/ ~(DOMAIN u \subseteq {"id", "name", "email", "preferences"})
       \/ u.name \in Passwords
       \/ u.email \in Passwords

ResultExposesSecret ==
    /\ returned.op \in {"register-user", "login-user", "get-current-user"}
    /\ IF returned.op = "get-current-user"
       THEN ExposesSecret(returned.value)
       ELSE \/ ~(DOMAIN returned.value \subseteq {"success", "userId", "message", "user"})
            \/ "message" \in DOMAIN returned.value /\ returned.value.message \in Passwords
            \/ "user" \in DOMAIN returned.value /\ ExposesSecret(returned.value.user)

C9_NoPasswordLeaves ==
    /\ ~ResultExposesSecret
    /\ ~ExposesSecret(currentUser)
    /\ SessionRecord # null =>
          /\ DOMAIN SessionRecord \subseteq {"user", "timestamp", "expiresAt"}
          /\ ~ExposesSecret(SessionRecord.user)

\* get-current-user has just returned a user whose row holds a password hash
C9_Witness ==
    /\ returned.op = "get-current-user"
    /\ returned.value # null
    /\ \E i \in 1..Len(db) :
          /\ db[i].id = returned.value.id
          /\ bcryptCompare("pw456", db[i].password)
    /\ SessionRecord.user = currentUser

\* C10: logout leaves no session file and an empty cache, so that a
\* get-current-user that follows returns null and a validate-session false;
\* a logout without a session changes nothing.
C10_LogoutClearsAndIsIdempotent ==
    [][ /\ (Ran("logout") /\ Logout) =>
              /\ sessionFile' = NoFile
              /\ currentUser' = null
              /\ (currentUser = null /\ sessionFile = NoFile) =>
                    UNCHANGED <<db, currentUser, sessionFile, now, inflight,
                                origin, registered, env>>
        /\ (returned.op = "logout" /\ Ran("get-current-user") /\ GetCurrentUser) =>
              returned'.value = null
        /\ (returned.op = "logout" /\ Ran("validate-session") /\ ValidateSession) =>
              returned'.value = FALSE
      ]_vars

\* a logout has just run although the session was already gone, after a
\* user had logged in
C10_Witness ==
    /\ returned.op = "logout"
    /\ returned.saw = NoOrigin
    /\ currentUser = null
    /\ sessionFile = NoFile
    /\ Len(registered) > 0

\* C11: when the process restarts while a user u is logged in (u with every
\* preference update applied so far), the startup restore returns true and
\* leaves exactly u in the cache if the record is younger than
\* SESSION_TIMEOUT; if the record is SESSION_TIMEOUT old or older, the restore
\* returns false, the cache is empty and the session file is removed.
C11_SessionSurvivesRestart ==
    [][ (/\ Ran("startup")
         /\ currentUser # null
         /\ IsSessionRecord(SessionRecord)
         /\ Restart) =>
            IF now - SessionRecord.timestamp < SESSION_TIMEOUT
            THEN /\ returned'.value = TRUE
                 /\ currentUser' = currentUser
                 /\ sessionFile' = sessionFile
            ELSE /\ returned'.value = FALSE
                 /\ currentUser' = null
                 /\ sessionFile' = NoFile
      ]_vars

\* a restart has just restored a user whose preferences had been updated
\* since the login
C11_Witness ==
    /\ returned.op = "startup"
    /\ returned.value = TRUE
    /\ returned.saw.by = "save-user-preferences"
    /\ currentUser # null
    /\ currentUser.preferences = [darkMode |-> TRUE, lastUsedAI |-> "claude", fontSize |-> 14]
    /\ SessionRecord.user = currentUser

\* a restart has just found the record of the last run expired and removed it
C11_WitnessExpired ==
    /\ returned.op = "startup"
    /\ returned.value = FALSE
    /\ returned.saw.by = "login-user"
    /\ now - returned.saw.loginAt >= SESSION_TIMEOUT
    /\ currentUser = null
    /\ sessionFile = NoFile

\* C12: on a live session save-user-preferences(patch) merges the patch into
\* the preferences and persists the result: afterwards every key of the patch
\* maps to the patch's value in the cache and in the session file, every other
\* key keeps its value, id, name and email are unchanged and the record's
\* timestamp is now; a get-current-user that follows within SESSION_TIMEOUT
\* returns the merged preferences.
C12_PreferencesMergedAndPersisted ==
    [][ /\ \A patch \in PreferencePatches :
              (/\ Ran("save-user-preferences")
               /\ Active
               /\ SaveUserPreferences(patch)) =>
                 LET old == PreferencesOf(currentUser)
                     new == currentUser'.preferences
                 IN  /\ DOMAIN new = DOMAIN old \cup DOMAIN patch
                     /\ \A k \in DOMAIN patch : new[k] = patch[k]
                     /\ \A k \in DOMAIN old \ DOMAIN patch : new[k] = old[k]
                     /\ currentUser'.id = currentUser.id
                     /\ currentUser'.name = currentUser.name
                     /\ currentUser'.email = currentUser.email
                     /\ DOMAIN currentUser' = DOMAIN currentUser
                     /\ IsSessionRecord(SessionRecord')
                     /\ SessionRecord'.user = currentUser'
                     /\ SessionRecord'.timestamp = now
        /\ (/\ Ran("get-current-user")
            /\ returned.op = "save-user-preferences"
            /\ Active
            /\ GetCurrentUser) =>
              /\ returned'.value = currentUser
              /\ \A k \in DOMAIN returned.args :
                    returned'.value.preferences[k] = returned.args[k]
      ]_vars

\* get-current-user has just returned the preferences a save-user-preferences
\* merged into the defaults: the patched key, the added key and the kept key
C12_Witness ==
    /\ returned.op = "get-current-user"
    /\ returned.saw.by = "save-user-preferences"
    /\ returned.value # null
    /\ returned.value.preferences.darkMode = TRUE
    /\ returned.value.preferences.fontSize = 14
    /\ returned.value.preferences.lastUsedAI = "claude"
    /\ SessionRecord.user = returned.value

\* the value a register-user or login-user invocation resolves with: success,
\* or failure with a reason
IsResult(v) ==
    /\ Has(v, "success")
    /\ v.success \in BOOLEAN
    /\ ~v.success => Has(v, "message")

\* the arguments of a suspended invocation
ArgsOf(call) == IF call.op = "register-user" THEN call.userData ELSE call.loginData

\* C13: every register-user and login-user invocation ends by resolving with
\* a result (success, or failure with a message), also when the read or the
\* insert of the table raises; an invocation that resolves with failure leaves
\* the cache and the session file as they were; and every suspended
\* invocation is eventually resolved.
C13_RequestsEndWithAResult ==
    /\ [][ returned'.op \in {"register-user", "login-user"} =>
             /\ "value" \in DOMAIN returned'
             /\ IsResult(returned'.value)
             /\ ~returned'.value.success => UNCHANGED <<currentUser, sessionFile>>
         ]_vars
    /\ \A call \in Calls :
          BagIn(call, inflight) ~>
              (returned.op = call.op /\ returned.args = ArgsOf(call))

\* a login-user has just resolved with the failure the raising table gave it,
\* while another user's session stays as it was
C13_Witness ==
    /\ returned.op = "login-user"
    /\ returned.value.success = FALSE
    /\ returned.value.message = StoreError
    /\ env.storeFails
    /\ currentUser # null
    /\ currentUser.email # returned.args.email
    /\ SessionRecord.user = currentUser

\* a register-user has just resolved with the failure of its INSERT: the
\* lookup found no row, the table began to raise while bcrypt was hashing
C13_WitnessInsert ==
    /\ returned.op = "register-user"
    /\ returned.value.success = FALSE
    /\ returned.value.message = StoreError
    /\ getUserByEmail(db, returned.args.email) = null
    /\ BagCardinality(inflight) = MaxInFlight - 1

\* C14: every session record the program writes has
\* expiresAt = timestamp + SESSION_TIMEOUT.
C14_ExpiryIsTimestampPlusTimeout ==
    (origin.by \in {"login-user", "get-current-user", "session-activity",
                    "save-user-preferences"}
       /\ IsSessionRecord(SessionRecord)) =>
        SessionRecord.expiresAt = SessionRecord.timestamp + SESSION_TIMEOUT

\* C15: validate-session is idempotent and does not touch the age of the
\* session: a second call at the same clock value returns the boolean the
\* first returned and leaves the cache and the session file as the first left
\* them, and a call that returns true leaves the session file as it found it.
C15_ValidateSessionIsIdempotent ==
    [][ (Ran("validate-session") /\ ValidateSession) =>
            LET first == Sess(currentUser', sessionFile')
                again == loadSavedSession(first, now')
            IN  /\ again.ret = returned'.value
                /\ again.S = first
                /\ returned'.value = TRUE => sessionFile' = sessionFile
                /\ (returned.op = "validate-session") =>
                      /\ returned'.value = returned.value
                      /\ UNCHANGED <<currentUser, sessionFile>>
      ]_vars

\* validate-session has just returned true on a record a login wrote at an
\* earlier clock value, and the record still carries the login's timestamp
C15_Witness ==
    /\ returned.op = "validate-session"
    /\ returned.value = TRUE
    /\ returned.saw.by = "login-user"
    /\ origin = returned.saw
    /\ IsSessionRecord(SessionRecord)
    /\ SessionRecord.timestamp = origin.loginAt
    /\ SessionRecord.timestamp < now
    /\ currentUser = SessionRecord.user

\* C16: get-current-user returns a user only if the cache is set and the
\* record in the session file is younger than SESSION_TIMEOUT at the call, it
\* returns one whenever that is so, and whenever it returns a user at time t
\* the record it leaves holds that user with timestamp t; calls less than
\* SESSION_TIMEOUT apart therefore keep returning the user.
C16_GetCurrentUserRevalidatesAndRefreshes ==
    [][ (Ran("get-current-user") /\ GetCurrentUser) =>
            /\ returned'.value # null <=> Active
            /\ returned'.value # null =>
                  /\ IsSessionRecord(SessionRecord')
                  /\ SessionRecord'.timestamp = now
                  /\ SessionRecord'.user = returned'.value
                  /\ currentUser' = returned'.value
      ]_vars

\* get-current-user has just returned the user a full SESSION_TIMEOUT after
\* the login, on a record the previous get-current-user had refreshed
C16_Witness ==
    /\ returned.op = "get-current-user"
    /\ returned.value # null
    /\ returned.saw.by = "get-current-user"
    /\ now - returned.saw.loginAt >= SESSION_TIMEOUT
    /\ SessionRecord.timestamp = now

\* C17: while the cache is empty, session-activity and save-user-preferences
\* leave the cache empty and the session file (present or not) as it is, and
\* get-current-user returns null and leaves both as they are.
C17_NoSessionNoEffect ==
    [][ currentUser = null =>
            /\ (Ran("session-activity") /\ SessionActivity) =>
                  UNCHANGED <<currentUser, sessionFile>>
            /\ \A patch \in PreferencePatches :
                  (Ran("save-user-preferences") /\ SaveUserPreferences(patch)) =>
                      UNCHANGED <<currentUser, sessionFile>>
            /\ (Ran("get-current-user") /\ GetCurrentUser) =>
                  /\ returned'.value = null
                  /\ UNCHANGED <<currentUser, sessionFile>>
      ]_vars

\* save-user-preferences has just run with an empty cache and left the file
\* it met, which nothing of the program had written, where it was
C17_Witness ==
    /\ returned.op = "save-user-preferences"
    /\ returned.saw.by = "external"
    /\ origin = returned.saw
    /\ currentUser = null
    /\ sessionFile.exists

\* session-activity has just run with an empty cache and no session file
C17_WitnessNoFile ==
    /\ returned.op = "session-activity"
    /\ returned.saw = NoOrigin
    /\ currentUser = null
    /\ sessionFile = NoFile

\* C18: once the record in the session file has reached SESSION_TIMEOUT, no
\* session-activity, save-user-preferences, validate-session or
\* get-current-user brings the session back: none of them leaves a record
\* younger than SESSION_TIMEOUT, validate-session returns false and
\* get-current-user returns null.
C18_ExpiredSessionStaysDead ==
    [][ (/\ returned'.op \in {"session-activity", "save-user-preferences",
                              "validate-session", "get-current-user"}
         /\ Expired) =>
            /\ ~(/\ IsSessionRecord(SessionRecord')
                 /\ now' - SessionRecord'.timestamp < SESSION_TIMEOUT)
            /\ Ran("validate-session") => returned'.value = FALSE
            /\ Ran("get-current-user") => returned'.value = null
      ]_vars

\* C19: a login-user invocation that was suspended when a logout ran does not
\* bring a session back: when its continuation runs next after the logout, it
\* leaves the cache empty and no session file.
C19_LogoutOutlastsPendingLogin ==
    [][ (/\ returned.op = "logout"
         /\ Ran("login-user")
         /\ \E call \in BagToSet(inflight) : LoginUserResume(call)) =>
            /\ currentUser' = null
            /\ sessionFile' = NoFile
      ]_vars

\* C20: the cache is reset whether or not the session file can be removed:
\* logout leaves the cache empty and a get-current-user that follows returns
\* null, and a validate-session or get-current-user that meets an expired
\* record leaves the cache empty, also when fs.unlinkSync throws.
C20_CacheResetEvenIfUnlinkFails ==
    [][ /\ (Ran("logout") /\ Logout) => currentUser' = null
        /\ (returned.op = "logout" /\ Ran("get-current-user") /\ GetCurrentUser) =>
              returned'.value = null
        /\ (Expired /\ Ran("validate-session") /\ ValidateSession) =>
              currentUser' = null
        /\ (Expired /\ currentUser # null /\ Ran("get-current-user") /\ GetCurrentUser) =>
              currentUser' = null
      ]_vars

\* C21: whenever get-current-user would return a user, the table holds a row
\* with that user's id and email, also after a restart that follows a run on
\* the `:memory:` fallback table.
C21_ActiveUserIsStored ==
    Active =>
        \E i \in 1..Len(db) :
            /\ db[i].id = currentUser.id
            /\ db[i].email = currentUser.email

====
